---- MODULE Spec2Model ----
(***************************************************************************)
(* Roll-container packing (packing_algorithm.py, product.py, container.py) *)
(* as a state machine.                                                     *)
(*                                                                         *)
(* Lengths are integers counting hundredths of a centimetre, so the        *)
(* tolerances of the code are 0.01 -> 1, 0.1 -> 10, 0.5 -> 50 and the      *)
(* candidate sweeps step by 1 cm -> 100 and 5 cm -> 500.  On such values   *)
(* round(v, 2) changes nothing and is written as v.  Weights are integers  *)
(* (kg).  Every item dimension of the inputs is an even number of          *)
(* hundredths, which makes the halving of the centred anchor exact.        *)
(***************************************************************************)
EXTENDS Integers, Sequences, FiniteSets, TLC

VARIABLES
  container,      \* RollContainer of the run (ProperPackingAlgorithm.container)
  products,       \* the caller's item list, argument of optimize_packing
  phase,          \* position in optimize_packing: "try", "rerun", "done"; "ledger" for a bare ledger
  strat,          \* index in _sort_strategies() of the loop of optimize_packing
  ppc,            \* position in _pack: "call", "while", "for", "ret"
  cfg,            \* PackingConfiguration of the current _pack call
  remaining,      \* _pack: remaining
  left,           \* _pack: left
  idx,            \* _pack: position of the for loop in remaining (1-based)
  made_progress,  \* _pack: made_progress
  best_cfg,       \* optimize_packing: best_cfg (<<>> is None)
  best_score,     \* optimize_packing: best_score (<<>> is the initial -1.0)
  best_name,      \* optimize_packing: best_name
  runs,           \* the ledgers returned by the strategy runs so far, in order
  ret,            \* last value returned by add_placement (<<>> before any call)
  attempts,       \* number of add_placement calls made on the bare ledger
  passes          \* _pack: passes of the while loop begun so far in the current call

vars == <<container, products, phase, strat, ppc, cfg, remaining, left, idx,
          made_progress, best_cfg, best_score, best_name, runs, ret, attempts,
          passes>>

\* ------------------------------------------------------------------ bounds
\* Longest item list handed to optimize_packing.
MaxItems == 3
\* Most add_placement calls made on a bare ledger.
MaxAttempts == 3

\* ------------------------------------------------------------ tolerances
EPS == 1          \* 0.01 cm, bounds tolerance
LEVEL_TOL == 10   \* 0.1 cm, height / level matching
SHELF_TOL == 50   \* 0.5 cm, shelf occupancy and shelf clearance
CM == 100         \* one centimetre, the step of range() over whole centimetres

None == <<>>
Some(v) == <<v>>

Abs(v) == IF v < 0 THEN -v ELSE v
Min(a, b) == IF a < b THEN a ELSE b
Max(a, b) == IF a > b THEN a ELSE b

\* int(v) of a length v: whole centimetres, truncated toward zero.
IntCm(v) == IF v >= 0 THEN v \div CM ELSE -((-v) \div CM)

\* round(v, 1) of a length: to the nearest 0.1 cm, a tie going to the even
\* tenth (the lengths of the inputs that end in 5 hundredths are multiples of
\* 0.25 cm, which binary floating point holds exactly).
round1(v) ==
  LET q == v \div 10
      r == v % 10
  IN IF r < 5 THEN 10 * q
     ELSE IF r > 5 THEN 10 * (q + 1)
     ELSE IF q % 2 = 0 THEN 10 * q ELSE 10 * (q + 1)

\* round(z / si): the nearest integer, a tie going to the even one.
roundDiv(z, si) ==
  LET q == z \div si
      r == z % si
  IN IF 2 * r < si THEN q
     ELSE IF 2 * r > si THEN q + 1
     ELSE IF q % 2 = 0 THEN q ELSE q + 1

\* ---------------------------------------------------------------- product
\* Product.get_oriented_dimensions
get_oriented_dimensions(product, orientation) ==
  LET l == product.dimensions[1]
      w == product.dimensions[2]
      h == product.dimensions[3]
  IN IF product.product_type = "Quader"
     THEN CASE orientation \in {"B", "O"} -> <<l, w, h>>
            [] orientation \in {"L", "R"} -> <<h, w, l>>
            [] orientation \in {"V", "H"} -> <<l, h, w>>
            [] OTHER -> <<l, w, h>>
     ELSE IF product.product_type = "Cylinder"
     THEN CASE orientation \in {"B", "O"} -> <<l, w, h>>
            [] orientation = "M" -> <<h, l, w>>
            [] OTHER -> <<l, w, h>>
     ELSE <<l, w, h>>

\* Product.volume and RollContainer.volume are measured in cubes of edge
\* `grain` hundredths (every dimension of a given input is a multiple of its
\* grain), times 28: a cuboid is 28*l*w*h and a cylinder 22*d*d*h, which is
\* pi*(d/2)^2*h with pi taken as 22/7.
VolUnits(v, grain) == v \div grain

\* Product.volume
volume(product, grain) ==
  LET l == VolUnits(product.dimensions[1], grain)
      w == VolUnits(product.dimensions[2], grain)
      h == VolUnits(product.dimensions[3], grain)
  IN IF product.product_type = "Cylinder" THEN 22 * l * l * h ELSE 28 * l * w * h

\* RollContainer.volume
container_volume(c) ==
  28 * VolUnits(c.length, c.grain) * VolUnits(c.width, c.grain) * VolUnits(c.height, c.grain)

\* ---------------------------------------------------------- placed product
\* PlacedProduct(product, orientation, position, dimensions)
PlacedProduct(product, orientation, position, dimensions) ==
  [product |-> product, orientation |-> orientation,
   position |-> position, dimensions |-> dimensions]

\* PlacedProduct.get_bounds: the upper corner (the lower one is p.position)
get_bounds(p) ==
  <<p.position[1] + p.dimensions[1], p.position[2] + p.dimensions[2],
    p.position[3] + p.dimensions[3]>>

\* overlaps_with comparing the bottoms instead of the height ranges
overlaps_with_zblind(a, b) ==
  LET ma == get_bounds(a)
      mb == get_bounds(b)
  IN ~(ma[1] <= b.position[1] \/ mb[1] <= a.position[1] \/
       ma[2] <= b.position[2] \/ mb[2] <= a.position[2] \/
       a.position[3] # b.position[3])

\* PlacedProduct.overlaps_with
overlaps_with(a, b) ==
  LET ma == get_bounds(a)
      mb == get_bounds(b)
  IN ~(ma[1] <= b.position[1] \/ mb[1] <= a.position[1] \/
       ma[2] <= b.position[2] \/ mb[2] <= a.position[2] \/
       ma[3] <= b.position[3] \/ mb[3] <= a.position[3])

\* ------------------------------------------------------------------ ledger
\* PackingConfiguration.__init__
PackingConfiguration ==
  [placed_products |-> <<>>, unpacked_products |-> <<>>, total_weight |-> 0]

\* add_placement taking boxes that touch for overlapping ones
add_accepts_touching(c, p, cont) ==
  /\ ~(c.total_weight + p.product.weight > cont.max_weight)
  /\ LET m == get_bounds(p)
     IN ~(m[1] > cont.length + EPS \/ m[2] > cont.width + EPS \/ m[3] > cont.height + EPS)
  /\ \A i \in DOMAIN c.placed_products :
       LET e == c.placed_products[i]
       IN \E k \in 1..3 : get_bounds(p)[k] < e.position[k] \/ get_bounds(e)[k] < p.position[k]

\* PackingConfiguration.add_placement: whether p is accepted on ledger c
add_accepts(c, p, cont) ==
  /\ ~(c.total_weight + p.product.weight > cont.max_weight)
  /\ LET m == get_bounds(p)
     IN ~(m[1] > cont.length + EPS \/ m[2] > cont.width + EPS \/ m[3] > cont.height + EPS)
  /\ \A i \in DOMAIN c.placed_products : ~overlaps_with(p, c.placed_products[i])

\* add_placement without line 66, the update of total_weight
add_placement_noweight(c, p, cont) ==
  IF add_accepts(c, p, cont)
  THEN [c EXCEPT !.placed_products = Append(@, p)]
  ELSE c

\* add_placement putting the placement at the head of the sequence
add_placement_prepends(c, p, cont) ==
  IF add_accepts(c, p, cont)
  THEN [c EXCEPT !.placed_products = <<p>> \o @,
                 !.total_weight = @ + p.product.weight]
  ELSE c

\* add_placement adding the weight on entry, before its three checks
add_placement_eager(c, p, cont) ==
  IF add_accepts(c, p, cont)
  THEN [c EXCEPT !.placed_products = Append(@, p),
                 !.total_weight = @ + p.product.weight]
  ELSE [c EXCEPT !.total_weight = @ + p.product.weight]

\* PackingConfiguration.add_placement: the ledger after the call
add_placement(c, p, cont) ==
  IF add_accepts(c, p, cont)
  THEN [c EXCEPT !.placed_products = Append(@, p),
                 !.total_weight = @ + p.product.weight]
  ELSE c

RECURSIVE SumVolume(_, _)
SumVolume(placed, grain) ==
  IF placed = <<>> THEN 0
  ELSE volume(Head(placed).product, grain) + SumVolume(Tail(placed), grain)

\* PackingConfiguration.get_utilization is 100 * used / container volume; the
\* model keeps its numerator, used
used_volume(c, cont) == SumVolume(c.placed_products, cont.grain)

\* u / v to n decimal places, truncated: [q, r] with u * 10^n = q * v + r,
\* digit by digit so that no product leaves 32 bits
RECURSIVE LongDiv(_, _, _)
LongDiv(u, v, n) ==
  IF n = 0 THEN [q |-> u \div v, r |-> u % v]
  ELSE LET p == LongDiv(u, v, n - 1)
       IN [q |-> 10 * p.q + (10 * p.r) \div v, r |-> (10 * p.r) % v]

\* get_utilization without the factor 100: the fraction, in hundredths
get_utilization_ratio(c, cont) ==
  LongDiv(used_volume(c, cont), container_volume(cont), 2).q

\* PackingConfiguration.get_utilization: used / volume * 100, in hundredths
\* of a percent, truncated
get_utilization(c, cont) ==
  LongDiv(used_volume(c, cont), container_volume(cont), 4).q

\* ------------------------------------------------------ orientation helpers
RECURSIVE VariantsFrom(_, _, _)
VariantsFrom(product, i, out) ==
  IF i > Len(product.allowed_orientations) THEN out
  ELSE LET o == product.allowed_orientations[i]
           d == get_oriented_dimensions(product, o)
           r == <<d[2], d[1], d[3]>>
           out1 == IF \E k \in DOMAIN out : out[k].dims = d
                   THEN out ELSE Append(out, [orient |-> o, dims |-> d])
           out2 == IF \E k \in DOMAIN out1 : out1[k].dims = r
                   THEN out1 ELSE Append(out1, [orient |-> o, dims |-> r])
       IN VariantsFrom(product, i + 1, out2)

\* _orientation_variants labelling every variant with the product's first
\* allowed orientation code
_orientation_variants_firstcode(product) ==
  LET out == VariantsFrom(product, 1, <<>>)
  IN [k \in DOMAIN out |->
        [orient |-> product.allowed_orientations[1], dims |-> out[k].dims]]

\* ProperPackingAlgorithm._orientation_variants
_orientation_variants(product) == VariantsFrom(product, 1, <<>>)

\* ---------------------------------------------------------------- z levels
RECURSIVE SortedAsc(_)
SortedAsc(S) ==
  IF S = {} THEN <<>>
  ELSE LET m == CHOOSE v \in S : \A u \in S : v <= u
       IN <<m>> \o SortedAsc(S \ {m})

\* _z_levels starting from an empty set of levels, the floor left out
_z_levels_nofloor(c, cont) ==
  SortedAsc({get_bounds(c.placed_products[i])[3] : i \in DOMAIN c.placed_products}
            \cup {i * cont.shelf_interval : i \in 1..(cont.height \div cont.shelf_interval)})

\* ProperPackingAlgorithm._z_levels
_z_levels(c, cont) ==
  SortedAsc({0}
            \cup {get_bounds(c.placed_products[i])[3] : i \in DOMAIN c.placed_products}
            \cup {i * cont.shelf_interval : i \in 1..(cont.height \div cont.shelf_interval)})

\* ------------------------------------------------------------- candidates
\* the add(x, y) calls of _candidates, in the order the code makes them
CornerAnchors(l, w, cont) ==
  << <<0, 0>>, <<cont.length - l, 0>>, <<0, cont.width - w>>,
     <<cont.length - l, cont.width - w>> >>

ProductAnchors(p, l, w, z) ==
  LET px == p.position[1]
      py == p.position[2]
      pz == p.position[3]
      pmx == get_bounds(p)[1]
      pmy == get_bounds(p)[2]
      pmz == get_bounds(p)[3]
  IN (IF Abs(pz - z) < LEVEL_TOL
      THEN << <<pmx, py>>, <<px, pmy>>, <<pmx, pmy>>, <<pmx, 0>>, <<0, pmy>> >>
      ELSE <<>>)
     \o
     (IF Abs(pmz - z) < LEVEL_TOL
      THEN << <<px, py>>, <<pmx, py>>, <<px, pmy>>, <<pmx, pmy>>,
              <<px + (pmx - px - l) \div 2, py + (pmy - py - w) \div 2>> >>
      ELSE <<>>)

RECURSIVE PlacedAnchors(_, _, _, _)
PlacedAnchors(placed, l, w, z) ==
  IF placed = <<>> THEN <<>>
  ELSE ProductAnchors(Head(placed), l, w, z) \o PlacedAnchors(Tail(placed), l, w, z)

WallAnchors(l, w, cont) ==
  LET nx == IntCm(cont.length - l)
      ny == IntCm(cont.width - w)
  IN [i \in 1..(2 * Max(nx + 1, 0)) |->
        IF i % 2 = 1 THEN <<((i - 1) \div 2) * CM, 0>>
        ELSE <<((i - 1) \div 2) * CM, cont.width - w>>]
     \o
     [i \in 1..(2 * Max(ny + 1, 0)) |->
        IF i % 2 = 1 THEN <<0, ((i - 1) \div 2) * CM>>
        ELSE <<cont.length - l, ((i - 1) \div 2) * CM>>]

GridAnchors(l, w, cont) ==
  LET nx == IntCm(cont.length - l)
      ny == IntCm(cont.width - w)
      cx == IF nx < 0 THEN 0 ELSE nx \div 5 + 1
      cy == IF ny < 0 THEN 0 ELSE ny \div 5 + 1
  IN [i \in 1..(cx * cy) |-> <<((i - 1) \div cy) * 5 * CM, ((i - 1) % cy) * 5 * CM>>]

\* add(x, y) of _candidates, folded over the calls lo..hi of raw; st is
\* [seen, out], seen listing the rounded keys in the order they were added.
\* The range is folded by halves, the first half evaluated first.
RECURSIVE AddAll(_, _, _, _, _, _, _)
AddAll(raw, lo, hi, st, l, w, cont) ==
  IF lo > hi THEN st
  ELSE IF lo = hi
  THEN LET x == raw[lo][1]
           y == raw[lo][2]
           k == <<round1(x), round1(y)>>
       IN IF (\A i \in DOMAIN st.seen : st.seen[i] # k) /\ 0 <= x /\ 0 <= y
             /\ x + l <= cont.length + EPS /\ y + w <= cont.width + EPS
          THEN [seen |-> Append(st.seen, k), out |-> Append(st.out, <<x, y>>)]
          ELSE st
  ELSE LET mid == (lo + hi) \div 2
           half == AddAll(raw, lo, mid, st, l, w, cont)
       IN IF Len(half.out) >= 0 THEN AddAll(raw, mid + 1, hi, half, l, w, cont) ELSE half

\* the sort of _candidates with the key (c[0], c[1]): by (x, y)
SortXY(s) ==
  LET rank == [i \in DOMAIN s |->
                 Cardinality({j \in DOMAIN s :
                                \/ s[j][1] < s[i][1]
                                \/ (s[j][1] = s[i][1] /\ s[j][2] < s[i][2])
                                \/ (s[j][1] = s[i][1] /\ s[j][2] = s[i][2] /\ j < i)})] \o <<>>
  IN [r \in DOMAIN s |-> s[CHOOSE i \in DOMAIN s : rank[i] = r - 1]] \o <<>>

\* out.sort(key=lambda c: (c[1], c[0])): a stable sort by (y, x); an entry
\* goes behind the entries with a smaller key and the earlier ones with an
\* equal key
SortYX(s) ==
  LET rank == [i \in DOMAIN s |->
                 Cardinality({j \in DOMAIN s :
                                \/ s[j][2] < s[i][2]
                                \/ (s[j][2] = s[i][2] /\ s[j][1] < s[i][1])
                                \/ (s[j][2] = s[i][2] /\ s[j][1] = s[i][1] /\ j < i)})] \o <<>>
  IN [r \in DOMAIN s |-> s[CHOOSE i \in DOMAIN s : rank[i] = r - 1]] \o <<>>

\* ProperPackingAlgorithm._candidates
_candidates(dims, z, c, cont) ==
  LET l == dims[1]
      w == dims[2]
      raw == CornerAnchors(l, w, cont) \o PlacedAnchors(c.placed_products, l, w, z)
             \o WallAnchors(l, w, cont) \o GridAnchors(l, w, cont)
      out == SortYX(AddAll(raw, 1, Len(raw), [seen |-> <<>>, out |-> <<>>], l, w, cont).out)
  IN [i \in DOMAIN out |-> <<out[i][1], out[i][2], z>>]

\* ----------------------------------------------------------------- scoring
\* _score without the wall term of line 323
_score_nowalls(pos, dims, c, cont) ==
  LET B(b) == IF b THEN 1 ELSE 0
      Contact(p) ==
        IF Max(pos[3], p.position[3]) >= Min(pos[3] + dims[3], get_bounds(p)[3]) THEN 0
        ELSE B((Abs(pos[1] + dims[1] - p.position[1]) < LEVEL_TOL
                \/ Abs(get_bounds(p)[1] - pos[1]) < LEVEL_TOL)
               /\ Max(pos[2], p.position[2]) < Min(pos[2] + dims[2], get_bounds(p)[2]))
             + B((Abs(pos[2] + dims[2] - p.position[2]) < LEVEL_TOL
                  \/ Abs(get_bounds(p)[2] - pos[2]) < LEVEL_TOL)
                 /\ Max(pos[1], p.position[1]) < Min(pos[1] + dims[1], get_bounds(p)[1]))
      ContactSum[i \in 0..Len(c.placed_products)] ==
        IF i = 0 THEN 0 ELSE ContactSum[i - 1] + Contact(c.placed_products[i])
  IN pos[2] * 2 + pos[1] - ContactSum[Len(c.placed_products)] * 40 * CM

\* ProperPackingAlgorithm._score, in hundredths (60 -> 6000, 40 -> 4000)
_score(pos, dims, c, cont) ==
  LET x == pos[1]
      y == pos[2]
      z == pos[3]
      l == dims[1]
      w == dims[2]
      h == dims[3]
      B(b) == IF b THEN 1 ELSE 0
      walls == B(x < LEVEL_TOL) + B(y < LEVEL_TOL)
               + B(Abs(x + l - cont.length) < LEVEL_TOL)
               + B(Abs(y + w - cont.width) < LEVEL_TOL)
      Contact(p) ==
        LET px == p.position[1]
            py == p.position[2]
            pz == p.position[3]
            pmx == get_bounds(p)[1]
            pmy == get_bounds(p)[2]
            pmz == get_bounds(p)[3]
        IN IF Max(z, pz) >= Min(z + h, pmz) THEN 0
           ELSE B((Abs(x + l - px) < LEVEL_TOL \/ Abs(pmx - x) < LEVEL_TOL)
                  /\ Max(y, py) < Min(y + w, pmy))
                + B((Abs(y + w - py) < LEVEL_TOL \/ Abs(pmy - y) < LEVEL_TOL)
                    /\ Max(x, px) < Min(x + l, pmx))
      ContactSum[i \in 0..Len(c.placed_products)] ==
        IF i = 0 THEN 0 ELSE ContactSum[i - 1] + Contact(c.placed_products[i])
  IN y * 2 + x - walls * 60 * CM - ContactSum[Len(c.placed_products)] * 40 * CM

\* -------------------------------------------------------------- validation
\* ProperPackingAlgorithm._shelf_clear
_shelf_clear(sz, c) ==
  \A i \in DOMAIN c.placed_products :
    LET p == c.placed_products[i]
    IN ~(p.position[3] < sz - SHELF_TOL /\ sz - SHELF_TOL < get_bounds(p)[3])

\* ProperPackingAlgorithm._spans_occupied_shelf
_spans_occupied_shelf(z, h, c, cont) ==
  \E sn \in 1..(cont.height \div cont.shelf_interval) :
    LET sz == sn * cont.shelf_interval
    IN /\ z + SHELF_TOL < sz
       /\ sz < z + h - SHELF_TOL
       /\ \E i \in DOMAIN c.placed_products :
            Abs(c.placed_products[i].position[3] - sz) < SHELF_TOL

\* _supported, lines 377-388: the footprint area resting on the top faces of
\* the non-fragile placed products
RECURSIVE support_area(_, _, _)
support_area(pos, dims, placed) ==
  IF placed = <<>> THEN 0
  ELSE LET p == Head(placed)
           ox == Max(0, Min(pos[1] + dims[1], get_bounds(p)[1]) - Max(pos[1], p.position[1]))
           oy == Max(0, Min(pos[2] + dims[2], get_bounds(p)[2]) - Max(pos[2], p.position[2]))
       IN (IF p.product.fragile \/ Abs(get_bounds(p)[3] - pos[3]) > LEVEL_TOL
           THEN 0 ELSE ox * oy)
          + support_area(pos, dims, Tail(placed))

\* _supported, lines 371-375: z is a shelf multiple and that shelf is clear
on_clear_shelf(z, c, cont) ==
  LET sn == roundDiv(z, cont.shelf_interval)
  IN sn > 0 /\ Abs(z - sn * cont.shelf_interval) < EPS
     /\ _shelf_clear(sn * cont.shelf_interval, c)

\* _supported without lines 381-382, the skip of fragile products
_supported_fragile_counts(pos, dims, c, product, cont) ==
  \/ Abs(pos[3]) < EPS
  \/ on_clear_shelf(pos[3], c, cont)
  \/ 2 * support_area(pos, dims,
           [i \in DOMAIN c.placed_products |->
              [c.placed_products[i] EXCEPT !.product.fragile = FALSE]])
       >= dims[1] * dims[2]

\* ProperPackingAlgorithm._supported (SUPPORT_THRESHOLD = 0.50)
_supported(pos, dims, c, product, cont) ==
  \/ Abs(pos[3]) < EPS
  \/ on_clear_shelf(pos[3], c, cont)
  \/ 2 * support_area(pos, dims, c.placed_products) >= dims[1] * dims[2]

\* _valid without lines 339-342, the overlap test against the placed products
_valid_nooverlap(pos, dims, c, product, cont) ==
  /\ ~(pos[1] < -EPS \/ pos[2] < -EPS \/ pos[3] < -EPS)
  /\ ~(pos[1] + dims[1] > cont.length + EPS)
  /\ ~(pos[2] + dims[2] > cont.width + EPS)
  /\ ~(pos[3] + dims[3] > cont.height + EPS)
  /\ ~_spans_occupied_shelf(pos[3], dims[3], c, cont)
  /\ _supported(pos, dims, c, product, cont)

\* ProperPackingAlgorithm._valid
_valid(pos, dims, c, product, cont) ==
  /\ ~(pos[1] < -EPS \/ pos[2] < -EPS \/ pos[3] < -EPS)
  /\ ~(pos[1] + dims[1] > cont.length + EPS)
  /\ ~(pos[2] + dims[2] > cont.width + EPS)
  /\ ~(pos[3] + dims[3] > cont.height + EPS)
  /\ LET test == PlacedProduct(product, "B", pos, dims)
     IN \A i \in DOMAIN c.placed_products : ~overlaps_with(test, c.placed_products[i])
  /\ ~_spans_occupied_shelf(pos[3], dims[3], c, cont)
  /\ _supported(pos, dims, c, product, cont)

\* ----------------------------------------------------- lowest-point search
\* _find_best without lines 228-232
fragile_level_ok_any(product, z, cont) == TRUE

\* _find_best, lines 228-232: a fragile product above the floor is tried only
\* at a shelf level
fragile_level_ok(product, z, cont) ==
  ~(product.fragile /\ z > LEVEL_TOL
    /\ Abs(z - roundDiv(z, cont.shelf_interval) * cont.shelf_interval) > LEVEL_TOL)

\* _find_best keeping the first valid candidate it meets, never a later one
consider_keeps_first(best, product, orient, dims, pos, c, cont) ==
  IF ~_valid(pos, dims, c, product, cont) THEN best
  ELSE IF best = None
  THEN Some([top |-> pos[3] + dims[3], sc |-> _score(pos, dims, c, cont),
             orient |-> orient, pos |-> pos, dims |-> dims])
  ELSE best

\* _find_best, lines 235-242: one candidate against the best so far; best is
\* None or Some of [top, sc, orient, pos, dims] (best_top is inf exactly while
\* best is None)
consider(best, product, orient, dims, pos, c, cont) ==
  IF ~_valid(pos, dims, c, product, cont) THEN best
  ELSE LET sc == _score(pos, dims, c, cont)
           top_r == pos[3] + dims[3]
       IN IF (IF best = None THEN TRUE
              ELSE top_r < best[1].top \/ (top_r = best[1].top /\ sc < best[1].sc))
          THEN Some([top |-> top_r, sc |-> sc, orient |-> orient,
                     pos |-> pos, dims |-> dims])
          ELSE best

\* _find_best, line 234: the loop over the candidates lo..hi of one variant,
\* folded by halves, first half first
RECURSIVE scan_candidates(_, _, _, _, _, _, _, _)
scan_candidates(best, product, variant, cands, lo, hi, c, cont) ==
  IF lo > hi THEN best
  ELSE IF lo = hi
  THEN consider(best, product, variant.orient, variant.dims, cands[lo], c, cont)
  ELSE LET mid == (lo + hi) \div 2
           half == scan_candidates(best, product, variant, cands, lo, mid, c, cont)
       IN IF Len(half) >= 0
          THEN scan_candidates(half, product, variant, cands, mid + 1, hi, c, cont)
          ELSE half

\* _find_best, lines 221-234: the loop over the orientation variants at level z
RECURSIVE scan_variants(_, _, _, _, _, _, _)
scan_variants(best, product, z, variants, j, c, cont) ==
  IF j > Len(variants) THEN best
  ELSE LET v == variants[j]
           ztop == z + v.dims[3]
           skip == \/ ztop > cont.height + EPS
                   \/ (IF best = None THEN FALSE ELSE ztop > best[1].top + EPS)
                   \/ ~fragile_level_ok(product, z, cont)
           next == IF skip THEN best
                   ELSE LET cands == _candidates(v.dims, z, c, cont)
                        IN scan_candidates(best, product, v, cands, 1, Len(cands),
                                           c, cont)
       IN scan_variants(next, product, z, variants, j + 1, c, cont)

\* _find_best, lines 216-219: the loop over the z levels, with its early exit
RECURSIVE scan_levels(_, _, _, _, _, _)
scan_levels(best, product, levels, k, c, cont) ==
  IF k > Len(levels) THEN best
  ELSE IF (IF best = None THEN FALSE ELSE levels[k] >= best[1].top) THEN best
  ELSE scan_levels(
         scan_variants(best, product, levels[k], _orientation_variants(product), 1, c, cont),
         product, levels, k + 1, c, cont)

\* the placement built with the level taken for its top, not its bottom
placement_of_hanging(product, b) ==
  PlacedProduct(product, b.orient,
                <<b.pos[1], b.pos[2], b.pos[3] - b.dims[3]>>, b.dims)

\* _find_best, lines 241-242: the placement built from the winning candidate
placement_of(product, b) == PlacedProduct(product, b.orient, b.pos, b.dims)

\* ProperPackingAlgorithm._find_best: None or Some(placement)
_find_best(product, c, cont) ==
  LET best == scan_levels(None, product, _z_levels(c, cont), 1, c, cont)
  IN IF best = None THEN None ELSE Some(placement_of(product, best[1]))

\* ---------------------------------------------------------- sort strategies
\* ProperPackingAlgorithm._sort_strategies: the names, in order
StrategyNames ==
  <<"volume_desc", "footprint_desc", "height_desc", "weight_desc", "volume_asc",
    "fragile_first", "heavy_bottom", "tall_then_big", "compact_first">>

\* _sort_strategies: the reverse flag of strategy s
StrategyReverse(s) == s \in 1..4

\* _sort_strategies: key_fn(p) < key_fn(q) for strategy s.  compact_first
\* compares the quotients -(l*w)/max(h, 1) by cross-multiplication.
KeyLess(s, p, q, grain) ==
  LET vol(a) == volume(a, grain)
      foot(a) == a.dimensions[1] * a.dimensions[2]
      hgt(a) == a.dimensions[3]
      frag(a) == IF a.fragile THEN 0 ELSE 1
      cfoot(a) == VolUnits(a.dimensions[1], grain) * VolUnits(a.dimensions[2], grain)
      chgt(a) == Max(VolUnits(a.dimensions[3], grain), VolUnits(CM, grain))
  IN CASE s \in {1, 5} -> vol(p) < vol(q)
       [] s = 2 -> foot(p) < foot(q)
       [] s = 3 -> hgt(p) < hgt(q)
       [] s = 4 -> p.weight < q.weight
       [] s = 6 -> frag(p) < frag(q) \/ (frag(p) = frag(q) /\ -vol(p) < -vol(q))
       [] s = 7 -> -p.weight < -q.weight \/ (p.weight = q.weight /\ -vol(p) < -vol(q))
       [] s = 8 -> -hgt(p) < -hgt(q) \/ (hgt(p) = hgt(q) /\ -vol(p) < -vol(q))
       [] s = 9 -> cfoot(p) * chgt(q) > cfoot(q) * chgt(p)

\* sorted(products, key=key_fn, reverse=rev): stable, also when reversed
RECURSIVE sorted(_, _, _)
sorted(items, s, grain) ==
  IF items = <<>> THEN <<>>
  ELSE LET x == items[Len(items)]
           acc == sorted(SubSeq(items, 1, Len(items) - 1), s, grain)
           Goes(e) == IF StrategyReverse(s) THEN KeyLess(s, e, x, grain)
                      ELSE KeyLess(s, x, e, grain)
           n == Cardinality({i \in DOMAIN acc : ~Goes(acc[i])})
       IN SubSeq(acc, 1, n) \o <<x>> \o SubSeq(acc, n + 1, Len(acc))

\* the comparison with utilization dominating and the count breaking ties
score_greater_by_volume(placed, used, best, cont) ==
  IF best = None THEN TRUE
  ELSE used > best[1].used \/ (used = best[1].used /\ placed > best[1].placed)

\* the comparison of line 137 with >= for >: a run that only equals the best
\* score replaces it
score_greater_or_equal(placed, used, best, cont) ==
  IF best = None THEN TRUE
  ELSE 100 * (placed - best[1].placed)
         >= (best[1].used - used + container_volume(cont) - 1) \div container_volume(cont)

\* optimize_packing, lines 136-137: score > best_score, where score is
\* placed * 10000 + 100 * used / volume and best is None (-1.0) or Some of
\* [placed, used].  With K = 100 * (placed - best.placed) the comparison is
\* K * volume > best.used - used, that is K > floor((best.used - used) / volume).
score_greater(placed, used, best, cont) ==
  IF best = None THEN TRUE
  ELSE 100 * (placed - best[1].placed)
         > (best[1].used - used) \div container_volume(cont)

\* the score of a returned ledger
score_of(c, cont) == [placed |-> Len(c.placed_products), used |-> used_volume(c, cont)]

\* optimize_packing, lines 142-145: the strategy the winner is re-run with
StrategyIndex(name) ==
  IF \E s \in DOMAIN StrategyNames : StrategyNames[s] = name
  THEN CHOOSE s \in DOMAIN StrategyNames :
         StrategyNames[s] = name /\ \A t \in 1..(s - 1) : StrategyNames[t] # name
  ELSE 0

\* ------------------------------------------------------------------ inputs
Quader(id, l, w, h, orientations, weight, fragile) ==
  [id |-> id, product_type |-> "Quader", dimensions |-> <<l, w, h>>,
   allowed_orientations |-> orientations, weight |-> weight, fragile |-> fragile]

Cylinder(id, d, h, orientations, weight, fragile) ==
  [id |-> id, product_type |-> "Cylinder", dimensions |-> <<d, d, h>>,
   allowed_orientations |-> orientations, weight |-> weight, fragile |-> fragile]

\* A container of 2 cm x 1 cm x 5 cm with shelves every 2 cm, carrying 20 kg.
SmallContainer ==
  [length |-> 200, width |-> 100, height |-> 500, max_weight |-> 20,
   shelf_interval |-> 200, grain |-> 2]

Containers == {SmallContainer}

\* The items the lists are drawn from: cubes (one of them fragile), a slab
\* covering the floor, columns through and up to the first shelf level, a
\* thin sheet, a cylinder, a heavy half-width wall and a column taller than
\* the container.
Catalog ==
  << Quader("N", 100, 100, 100, <<"B">>, 5, FALSE),
     Quader("F", 100, 100, 100, <<"B">>, 3, TRUE),
     Quader("X", 200, 100, 100, <<"B", "L">>, 4, FALSE),
     Quader("A", 100, 100, 300, <<"B">>, 6, FALSE),
     Quader("C", 100, 100, 200, <<"B">>, 5, FALSE),
     Quader("T", 200, 100, 4, <<"B">>, 1, FALSE),
     Cylinder("Y", 100, 150, <<"B", "M">>, 5, FALSE),
     Quader("H", 200, 50, 250, <<"B", "O">>, 16, FALSE),
     Quader("U", 100, 100, 600, <<"B">>, 1, FALSE) >>

\* the items of Catalog at the indices S, in catalog order or in reverse
ListOf(S, reversed) ==
  LET idxs == SortedAsc(S)
  IN [i \in DOMAIN idxs |->
        Catalog[IF reversed THEN idxs[Len(idxs) + 1 - i] ELSE idxs[i]]]

ItemLists ==
  {ListOf(S, r) : S \in {T \in SUBSET DOMAIN Catalog : Cardinality(T) <= MaxItems},
                  r \in BOOLEAN}

\* STANDARD_ROLL_CONTAINER: 100 cm x 80 cm x 170 cm, shelves every 20 cm,
\* 300 kg; volumes are counted in cubes of 10 cm
STANDARD_ROLL_CONTAINER ==
  [length |-> 10000, width |-> 8000, height |-> 17000, max_weight |-> 300,
   shelf_interval |-> 2000, grain |-> 1000]

\* two equal cuboids of 60 x 40 x 20 cm and 10 kg, upright only
TwoCuboids ==
  << Quader("P", 6000, 4000, 2000, <<"B">>, 10, FALSE),
     Quader("Q", 6000, 4000, 2000, <<"B">>, 10, FALSE) >>

\* a fragile cuboid of 50 x 30 x 20 cm and 8 kg, then a cuboid of
\* 50 x 30 x 10 cm and 5 kg, upright only
FragileThenFlat ==
  << Quader("V", 5000, 3000, 2000, <<"B">>, 8, TRUE),
     Quader("M", 5000, 3000, 1000, <<"B">>, 5, FALSE) >>

\* a narrow wall through the first shelf level, a block too wide for the rest
\* of the floor and too tall for the upper shelf, a second wall as tall as
\* the first, and a column taller than the container: the block has no place
\* until both walls stand, the column never has one
WallBlockWall ==
  << Quader("W", 200, 40, 250, <<"B">>, 10, FALSE),
     Quader("G", 100, 100, 150, <<"B">>, 5, FALSE),
     Quader("D", 200, 60, 250, <<"B">>, 2, FALSE),
     Quader("K", 100, 100, 600, <<"B">>, 1, FALSE) >>

\* a lath lying in a corner of the floor and a fragile board that may stand
\* upright or lie flat: lying flat it fits nowhere on the floor, only over the
\* lath, and then its top is as high as when it stands on the floor
LathThenFragile ==
  << Quader("S", 150, 50, 40, <<"B">>, 2, FALSE),
     Quader("J", 40, 100, 80, <<"B", "L">>, 1, TRUE) >>

\* two equal bricks of 0.6 x 0.4 x 1 cm: in the corner of the empty container
\* a brick has the same top and the same score lengthwise and crosswise
TwinBricks ==
  << Quader("B1", 60, 40, 100, <<"B">>, 1, FALSE),
     Quader("B2", 60, 40, 100, <<"B">>, 1, FALSE) >>

\* the inputs of optimize_packing in the small container: every list of the
\* catalog, the walls with the block, the lath with the fragile board, and
\* the two bricks
Worlds ==
  {<<c, l>> : c \in Containers, l \in ItemLists}
    \cup {<<SmallContainer, WallBlockWall>>, <<SmallContainer, LathThenFragile>>,
          <<SmallContainer, TwinBricks>>}

\* the inputs of optimize_packing in the standard roll container, and the
\* walls with the block in the small one
StandardWorlds ==
  {<<STANDARD_ROLL_CONTAINER, TwoCuboids>>,
   <<STANDARD_ROLL_CONTAINER, FragileThenFlat>>,
   <<SmallContainer, WallBlockWall>>}

\* the inputs of the runs followed to their end: the lists whose rounds take
\* several passes or leave items unpacked, and every list of at most two
\* items of the catalog, the empty one included
TerminatingWorlds ==
  {<<SmallContainer, WallBlockWall>>, <<SmallContainer, LathThenFragile>>,
   <<SmallContainer, TwinBricks>>}
    \cup {<<SmallContainer, ListOf(S, r)>> :
            S \in {T \in SUBSET DOMAIN Catalog : Cardinality(T) <= 2}, r \in BOOLEAN}

\* a cube and a cube with no allowed orientation
EmptyOrientations ==
  << Quader("N", 100, 100, 100, <<"B">>, 5, FALSE),
     Quader("E", 100, 100, 100, <<>>, 1, FALSE) >>

\* a cuboid of length 0 and a cube
ZeroLength ==
  << Quader("Z", 0, 100, 100, <<"B">>, 1, FALSE),
     Quader("N", 100, 100, 100, <<"B">>, 5, FALSE) >>

\* a cube and a fragile cube, for the container whose shelf interval is more
\* than its height
TwoCubes ==
  << Quader("N", 100, 100, 100, <<"B">>, 5, FALSE),
     Quader("F", 100, 100, 100, <<"B">>, 3, TRUE) >>

\* the small container with shelf_interval 6 cm, above its height of 5 cm
ShelflessContainer ==
  [length |-> 200, width |-> 100, height |-> 500, max_weight |-> 20,
   shelf_interval |-> 600, grain |-> 2]

\* inputs a validation of the configuration would refuse; the constructor
\* and optimize_packing take them as they are
UnvalidatedWorlds ==
  {<<SmallContainer, EmptyOrientations>>,
   <<SmallContainer, ZeroLength>>,
   <<ShelflessContainer, TwoCubes>>}

\* -------------------------------------------------------- optimize_packing
\* optimize_packing called with the container w[1] and the list w[2]
Start(w) ==
  /\ container = w[1]
  /\ products = w[2]
  /\ phase = "try"
  /\ strat = 1
  /\ ppc = "call"
  /\ cfg = PackingConfiguration
  /\ remaining = <<>>
  /\ left = <<>>
  /\ idx = 1
  /\ made_progress = FALSE
  /\ best_cfg = None
  /\ best_score = None
  /\ best_name = ""
  /\ runs = <<>>
  /\ ret = None
  /\ attempts = 0
  /\ passes = 0

Init == \E w \in Worlds : Start(w)

InitStandard == \E w \in StandardWorlds : Start(w)

InitUnvalidated == \E w \in UnvalidatedWorlds : Start(w)

InitTerminating == \E w \in TerminatingWorlds : Start(w)

\* _pack going on with the ledger of the call before it
ledger_kept(c) == c

\* _pack, line 154: the ledger a call starts from (c is the one before it)
fresh_ledger(c) == PackingConfiguration

\* _pack, lines 154-159: a new ledger, the sorted list copied, the loop armed
PackCall ==
  /\ phase \in {"try", "rerun"}
  /\ ppc = "call"
  /\ cfg' = fresh_ledger(cfg)
  /\ remaining' = sorted(products, strat, container.grain)
  /\ made_progress' = TRUE
  /\ passes' = 0
  /\ ppc' = "while"
  /\ UNCHANGED <<container, products, phase, strat, left, idx, best_cfg,
                 best_score, best_name, runs, ret, attempts>>

\* _pack, lines 160-162: the while test holds, a pass starts
PassBegin ==
  /\ ppc = "while"
  /\ made_progress /\ remaining # <<>>
  /\ made_progress' = FALSE
  /\ left' = <<>>
  /\ idx' = 1
  /\ passes' = passes + 1
  /\ ppc' = "for"
  /\ UNCHANGED <<container, products, phase, strat, cfg, remaining, best_cfg,
                 best_score, best_name, runs, ret, attempts>>

\* the if branch of _pack appending the product to left as well: a committed
\* product stays in the remaining list
PlaceItem_keeps ==
  /\ ppc = "for"
  /\ idx <= Len(remaining)
  /\ LET pl == _find_best(remaining[idx], cfg, container)
     IN /\ IF pl = None THEN FALSE ELSE add_accepts(cfg, pl[1], container)
        /\ cfg' = add_placement(cfg, pl[1], container)
        /\ ret' = Some(TRUE)
  /\ made_progress' = TRUE
  /\ left' = Append(left, remaining[idx])
  /\ idx' = idx + 1
  /\ UNCHANGED <<container, products, phase, strat, ppc, remaining,
                 best_cfg, best_score, best_name, runs, attempts, passes>>

\* _pack, lines 163-166: the product is found a placement and the ledger accepts it
PlaceItem ==
  /\ ppc = "for"
  /\ idx <= Len(remaining)
  /\ LET pl == _find_best(remaining[idx], cfg, container)
     IN /\ IF pl = None THEN FALSE ELSE add_accepts(cfg, pl[1], container)
        /\ cfg' = add_placement(cfg, pl[1], container)
        /\ ret' = Some(TRUE)
  /\ made_progress' = TRUE
  /\ idx' = idx + 1
  /\ UNCHANGED <<container, products, phase, strat, ppc, remaining, left,
                 best_cfg, best_score, best_name, runs, attempts, passes>>

\* the else branch of _pack without line 173: the product is not kept
LeaveItem_forgets ==
  /\ ppc = "for"
  /\ idx <= Len(remaining)
  /\ LET pl == _find_best(remaining[idx], cfg, container)
     IN /\ IF pl = None THEN TRUE ELSE ~add_accepts(cfg, pl[1], container)
        /\ cfg' = IF pl = None THEN cfg ELSE add_placement(cfg, pl[1], container)
        /\ ret' = IF pl = None THEN ret ELSE Some(FALSE)
  /\ left' = left
  /\ idx' = idx + 1
  /\ UNCHANGED <<container, products, phase, strat, ppc, remaining,
                 made_progress, best_cfg, best_score, best_name, runs, attempts, passes>>

\* the else branch of _pack ending the for loop: the products behind the one
\* left are not attempted in this pass
LeaveItem_stops ==
  /\ ppc = "for"
  /\ idx <= Len(remaining)
  /\ LET pl == _find_best(remaining[idx], cfg, container)
     IN /\ IF pl = None THEN TRUE ELSE ~add_accepts(cfg, pl[1], container)
        /\ cfg' = IF pl = None THEN cfg ELSE add_placement(cfg, pl[1], container)
        /\ ret' = IF pl = None THEN ret ELSE Some(FALSE)
  /\ left' = left \o SubSeq(remaining, idx, Len(remaining))
  /\ idx' = Len(remaining) + 1
  /\ UNCHANGED <<container, products, phase, strat, ppc, remaining,
                 made_progress, best_cfg, best_score, best_name, runs, attempts, passes>>

\* _pack, lines 163-165, 172-173: no placement, or the ledger rejects it
LeaveItem ==
  /\ ppc = "for"
  /\ idx <= Len(remaining)
  /\ LET pl == _find_best(remaining[idx], cfg, container)
     IN /\ IF pl = None THEN TRUE ELSE ~add_accepts(cfg, pl[1], container)
        /\ cfg' = IF pl = None THEN cfg ELSE add_placement(cfg, pl[1], container)
        /\ ret' = IF pl = None THEN ret ELSE Some(FALSE)
  /\ left' = Append(left, remaining[idx])
  /\ idx' = idx + 1
  /\ UNCHANGED <<container, products, phase, strat, ppc, remaining,
                 made_progress, best_cfg, best_score, best_name, runs, attempts, passes>>

\* _pack, line 174: the for loop is over
PassEnd ==
  /\ ppc = "for"
  /\ idx > Len(remaining)
  /\ remaining' = left
  /\ ppc' = "while"
  /\ UNCHANGED <<container, products, phase, strat, cfg, left, idx,
                 made_progress, best_cfg, best_score, best_name, runs, ret, attempts, passes>>

\* _pack returning its ledger without line 176, the unpacked list
PackReturn_unrecorded ==
  /\ ppc = "while"
  /\ ~(made_progress /\ remaining # <<>>)
  /\ cfg' = cfg
  /\ ppc' = "ret"
  /\ UNCHANGED <<container, products, phase, strat, remaining, left, idx,
                 made_progress, best_cfg, best_score, best_name, runs, ret, attempts, passes>>

\* _pack leaving its loop whatever the while test of line 160 says
PackReturn_untested ==
  /\ ppc = "while"
  /\ cfg' = [cfg EXCEPT !.unpacked_products = remaining]
  /\ ppc' = "ret"
  /\ UNCHANGED <<container, products, phase, strat, remaining, left, idx,
                 made_progress, best_cfg, best_score, best_name, runs, ret, attempts, passes>>

\* _pack, lines 160, 176-182: the while test fails, the ledger is returned
PackReturn ==
  /\ ppc = "while"
  /\ ~(made_progress /\ remaining # <<>>)
  /\ cfg' = [cfg EXCEPT !.unpacked_products = remaining]
  /\ ppc' = "ret"
  /\ UNCHANGED <<container, products, phase, strat, remaining, left, idx,
                 made_progress, best_cfg, best_score, best_name, runs, ret, attempts, passes>>

\* optimize_packing, lines 134, 140-145: on to the next strategy, or to the
\* re-run of the strategy named name
NextStrategy(name) ==
  IF strat < Len(StrategyNames)
  THEN strat' = strat + 1 /\ phase' = "try" /\ ppc' = "call"
  ELSE IF StrategyIndex(name) # 0
  THEN strat' = StrategyIndex(name) /\ phase' = "rerun" /\ ppc' = "call"
  ELSE strat' = strat /\ phase' = "done" /\ ppc' = "done"

\* optimize_packing, lines 135-138: the run's score beats the best so far
KeepRun ==
  /\ phase = "try"
  /\ ppc = "ret"
  /\ score_greater(Len(cfg.placed_products), used_volume(cfg, container),
                   best_score, container)
  /\ best_score' = Some(score_of(cfg, container))
  /\ best_cfg' = Some(cfg)
  /\ best_name' = StrategyNames[strat]
  /\ runs' = Append(runs, cfg)
  /\ NextStrategy(StrategyNames[strat])
  /\ UNCHANGED <<container, products, cfg, remaining, left, idx, made_progress,
                 ret, attempts, passes>>

\* optimize_packing, lines 135-137: the run's score does not beat the best
DropRun ==
  /\ phase = "try"
  /\ ppc = "ret"
  /\ ~score_greater(Len(cfg.placed_products), used_volume(cfg, container),
                    best_score, container)
  /\ runs' = Append(runs, cfg)
  /\ NextStrategy(best_name)
  /\ UNCHANGED <<container, products, cfg, remaining, left, idx, made_progress,
                 best_cfg, best_score, best_name, ret, attempts, passes>>

\* optimize_packing, lines 144-146: the re-run's ledger is what is returned
Return ==
  /\ phase = "rerun"
  /\ ppc = "ret"
  /\ best_cfg' = Some(cfg)
  /\ phase' = "done"
  /\ ppc' = "done"
  /\ UNCHANGED <<container, products, strat, cfg, remaining, left, idx,
                 made_progress, best_score, best_name, runs, ret, attempts, passes>>

Next ==
  \/ PackCall
  \/ PassBegin
  \/ PlaceItem
  \/ LeaveItem
  \/ PassEnd
  \/ PackReturn
  \/ KeepRun
  \/ DropRun
  \/ Return

Spec == Init /\ [][Next]_vars

\* _pack, lines 163-173: the body of the for loop is run for the product at
\* idx, whichever of its two branches is taken
ForBody ==
  /\ ppc = "for"
  /\ idx <= Len(remaining)
  /\ idx' = idx + 1

\* the statement outside the for body that _pack or optimize_packing is at
Executes ==
  \/ PackCall
  \/ PassBegin
  \/ PassEnd
  \/ PackReturn
  \/ KeepRun
  \/ DropRun
  \/ Return

\* optimize_packing run to its end: the code is one sequential thread, which
\* executes the statement it is at and does not stop before it returns
SpecTerminating ==
  InitTerminating /\ [][Next]_vars /\ WF_vars(Executes) /\ WF_idx(ForBody)

\* optimize_packing on the standard roll container
SpecStandard == InitStandard /\ [][Next]_vars

\* optimize_packing on configurations no validation has looked at
SpecUnvalidated == InitUnvalidated /\ [][Next]_vars

\* ------------------------------------------------------- a ledger by itself
\* The placements handed to add_placement by an arbitrary caller: a cube, a
\* fragile cube and the heavy wall, in each orientation variant, at lower
\* corners inside, outside and below the container.
LedgerItems == {1, 2, 8}
LedgerX == {-50, 0, 100}
LedgerY == {0}
LedgerZ == {-100, 0, 50}

LedgerCandidates ==
  UNION {
    {PlacedProduct(Catalog[i], v.orient, <<x, y, z>>, v.dims) :
       x \in LedgerX, y \in LedgerY, z \in LedgerZ,
       v \in {_orientation_variants(Catalog[i])[k] :
                k \in DOMAIN _orientation_variants(Catalog[i])}} :
    i \in LedgerItems }

InitLedger ==
  /\ container \in Containers
  /\ products = <<>>
  /\ phase = "ledger"
  /\ strat = 1
  /\ ppc = "ledger"
  /\ cfg = PackingConfiguration
  /\ remaining = <<>>
  /\ left = <<>>
  /\ idx = 1
  /\ made_progress = FALSE
  /\ best_cfg = None
  /\ best_score = None
  /\ best_name = ""
  /\ runs = <<>>
  /\ ret = None
  /\ attempts = 0
  /\ passes = 0

\* add_placement, lines 65-67: the candidate is appended
CommitAccepted ==
  /\ phase = "ledger"
  /\ attempts < MaxAttempts
  /\ \E p \in LedgerCandidates :
       /\ add_accepts(cfg, p, container)
       /\ cfg' = add_placement(cfg, p, container)
  /\ ret' = Some(TRUE)
  /\ attempts' = attempts + 1
  /\ UNCHANGED <<container, products, phase, strat, ppc, remaining, left, idx,
                 made_progress, best_cfg, best_score, best_name, runs, passes>>

\* add_placement, lines 56-64: the candidate is refused
CommitRejected ==
  /\ phase = "ledger"
  /\ attempts < MaxAttempts
  /\ \E p \in LedgerCandidates :
       /\ ~add_accepts(cfg, p, container)
       /\ cfg' = add_placement(cfg, p, container)
  /\ ret' = Some(FALSE)
  /\ attempts' = attempts + 1
  /\ UNCHANGED <<container, products, phase, strat, ppc, remaining, left, idx,
                 made_progress, best_cfg, best_score, best_name, runs, passes>>

NextLedger ==
  \/ CommitAccepted
  \/ CommitRejected

SpecLedger == InitLedger /\ [][NextLedger]_vars

\* ================================================================== claims
Placed == cfg.placed_products

\* the boxes of a and b share a region of positive volume
BoxesIntersect(a, b) ==
  \A k \in 1..3 :
    Max(a.position[k], b.position[k])
      < Min(a.position[k] + a.dimensions[k], b.position[k] + b.dimensions[k])

\* the footprints of a and b share a region of positive area
FootprintsIntersect(a, b) ==
  \A k \in 1..2 :
    Max(a.position[k], b.position[k])
      < Min(a.position[k] + a.dimensions[k], b.position[k] + b.dimensions[k])

\* C1: whatever commit attempts were made on a ledger, no two of its placed
\* items have boxes whose intersection has positive volume.
C1_NoOverlap ==
  \A i, j \in DOMAIN Placed : i < j => ~BoxesIntersect(Placed[i], Placed[j])

\* C1 witness: two placed boxes that touch along a whole face, the closest
\* two boxes may come, after an attempt has been refused.
C1_Witness ==
  /\ phase = "ledger"
  /\ ret = Some(FALSE)
  /\ \E i, j \in DOMAIN Placed :
       /\ i < j
       /\ get_bounds(Placed[i])[1] = Placed[j].position[1]
       /\ Placed[i].position[3] = Placed[j].position[3]
       /\ Placed[i].position[2] = Placed[j].position[2]

RECURSIVE SumWeights(_)
SumWeights(placed) ==
  IF placed = <<>> THEN 0
  ELSE Head(placed).product.weight + SumWeights(Tail(placed))

\* C2: after any commit attempts the running total weight is at most
\* max_weight and equals the sum of the weights of the placed items.
C2_Weight ==
  /\ cfg.total_weight <= container.max_weight
  /\ cfg.total_weight = SumWeights(Placed)

\* C2 witness: a loaded ledger that has just refused an attempt, while some
\* item would push the weight over max_weight.
C2_Witness ==
  /\ phase = "ledger"
  /\ ret = Some(FALSE)
  /\ cfg.total_weight > 0
  /\ \E i \in LedgerItems : cfg.total_weight + Catalog[i].weight > container.max_weight

\* the box of p lies in the container, 0.01 allowed on each of the six faces
InContainer(p) ==
  /\ p.position[1] >= -EPS /\ p.position[2] >= -EPS /\ p.position[3] >= -EPS
  /\ p.position[1] + p.dimensions[1] <= container.length + EPS
  /\ p.position[2] + p.dimensions[2] <= container.width + EPS
  /\ p.position[3] + p.dimensions[3] <= container.height + EPS

\* C3: every box of the ledger of a placement round, and of the ledger
\* optimize_packing returns, lies in the container (0.01 tolerance per face).
C3_InBounds ==
  /\ \A i \in DOMAIN Placed : InContainer(Placed[i])
  /\ \A b \in DOMAIN best_cfg : \A i \in DOMAIN best_cfg[b].placed_products :
       InContainer(best_cfg[b].placed_products[i])

\* C3 witness: a returned ledger holding a box whose top is the container's
\* top and whose side is the far wall.
C3_Witness ==
  /\ ppc = "ret"
  /\ \E i \in DOMAIN Placed :
       /\ Placed[i].position[3] + Placed[i].dimensions[3] = container.height
       /\ Placed[i].position[1] + Placed[i].dimensions[1] = container.length

\* z is within 0.1 of the floor or of an integer multiple of the shelf interval
NearShelfLevel(z) ==
  \/ Abs(z) <= LEVEL_TOL
  \/ \E k \in 0..(container.height \div container.shelf_interval + 1) :
       Abs(z - k * container.shelf_interval) <= LEVEL_TOL

\* C4: every fragile placed item of a placement round has its bottom within
\* 0.1 of the floor or of a multiple of shelf_interval.
C4_FragileLevels ==
  \A i \in DOMAIN Placed :
    Placed[i].product.fragile => NearShelfLevel(Placed[i].position[3])

\* C4 witness: a returned ledger with a fragile item above the floor, at a
\* height other items' tops also offered other levels below.
C4_Witness ==
  /\ ppc = "ret"
  /\ \E i \in DOMAIN Placed :
       /\ Placed[i].product.fragile
       /\ Placed[i].position[3] >= container.shelf_interval
       /\ \E j \in DOMAIN Placed :
            /\ j < i
            /\ ~NearShelfLevel(get_bounds(Placed[j])[3])

\* the area of p's footprint lying on the top faces (top within 0.1 of p's
\* bottom) of the non-fragile items among prior
SupportArea(p, prior) ==
  LET Area(q) ==
        IF q.product.fragile
           \/ Abs(q.position[3] + q.dimensions[3] - p.position[3]) > LEVEL_TOL
        THEN 0
        ELSE Max(0, Min(p.position[1] + p.dimensions[1], q.position[1] + q.dimensions[1])
                    - Max(p.position[1], q.position[1]))
             * Max(0, Min(p.position[2] + p.dimensions[2], q.position[2] + q.dimensions[2])
                      - Max(p.position[2], q.position[2]))
      Sum[i \in 0..Len(prior)] == IF i = 0 THEN 0 ELSE Sum[i - 1] + Area(prior[i])
  IN Sum[Len(prior)]

\* the ledger as it was when its i-th item was committed
LedgerBefore(i) == [cfg EXCEPT !.placed_products = SubSeq(Placed, 1, i - 1)]

\* the i-th item was committed on the floor or on a clear shelf
OnFloorOrClearShelf(i) ==
  \/ Abs(Placed[i].position[3]) < EPS
  \/ on_clear_shelf(Placed[i].position[3], LedgerBefore(i), container)

\* C5: an item committed by a placement round neither on the floor nor on a
\* clear shelf multiple has at least half of its footprint on the top faces of
\* the non-fragile items placed before it (exactly half is enough; fragile
\* items add nothing).
C5_Support ==
  \A i \in DOMAIN Placed :
    \/ OnFloorOrClearShelf(i)
    \/ 2 * SupportArea(Placed[i], SubSeq(Placed, 1, i - 1))
         >= Placed[i].dimensions[1] * Placed[i].dimensions[2]

\* C5 witness: an item stacked with exactly half of its footprint supported,
\* the other half lying over a fragile item's top.
C5_Witness ==
  \E i \in DOMAIN Placed :
    /\ ~OnFloorOrClearShelf(i)
    /\ 2 * SupportArea(Placed[i], SubSeq(Placed, 1, i - 1))
         = Placed[i].dimensions[1] * Placed[i].dimensions[2]
    /\ \E j \in 1..(i - 1) :
         /\ Placed[j].product.fragile
         /\ Abs(get_bounds(Placed[j])[3] - Placed[i].position[3]) <= LEVEL_TOL
         /\ FootprintsIntersect(Placed[i], Placed[j])

\* C6: nothing is stacked on a fragile product: no placed item has its bottom
\* within 0.1 of the top of a fragile placed item whose footprint it overlaps.
C6_NothingOnFragile ==
  \A i, j \in DOMAIN Placed :
    (i # j /\ Placed[i].product.fragile)
      => ~(/\ Abs(Placed[j].position[3] - get_bounds(Placed[i])[3]) <= LEVEL_TOL
           /\ FootprintsIntersect(Placed[i], Placed[j]))

\* C7: no placed item spans a shelf level (more than 0.5 on both sides) on
\* which another placed item has its bottom (within 0.5), whatever the order
\* of the commits.
C7_NoSpanThroughOccupiedShelf ==
  \A a, b \in DOMAIN Placed :
    \A k \in 1..(container.height \div container.shelf_interval) :
      LET s == k * container.shelf_interval
      IN a # b =>
           ~(/\ Placed[a].position[3] + SHELF_TOL < s
             /\ s < get_bounds(Placed[a])[3] - SHELF_TOL
             /\ Abs(Placed[b].position[3] - s) < SHELF_TOL)

\* C9: the ledger optimize_packing returns has at least as many placed items
\* as each of the nine runs, and at least the utilization of each run with as
\* many; every utilization is below 10000 (used / volume below 100).
C9_BestOfNine ==
  phase = "done" =>
    /\ Len(runs) = Len(StrategyNames)
    /\ \A i \in DOMAIN runs :
         /\ Len(runs[i].placed_products) <= Len(best_cfg[1].placed_products)
         /\ Len(runs[i].placed_products) = Len(best_cfg[1].placed_products)
              => used_volume(runs[i], container) <= used_volume(best_cfg[1], container)
         /\ used_volume(runs[i], container) \div container_volume(container) < 100

\* C9 witness: the returned ledger holds more items than some run whose
\* utilization is greater.
C9_Witness ==
  /\ phase = "done"
  /\ \E i \in DOMAIN runs :
       /\ Len(runs[i].placed_products) < Len(best_cfg[1].placed_products)
       /\ used_volume(runs[i], container) > used_volume(best_cfg[1], container)

\* C10: the caller's list never changes; runs given the same ordered list
\* return the same ledger whatever ran before them; and the ledger returned
\* (the winner's ordering run again) is the ledger, unpacked list included,
\* of the run that won the comparison.
C10_RunsIndependent ==
  [][/\ products' = products
     /\ \A i, j \in DOMAIN runs' :
          sorted(products, i, container.grain) = sorted(products, j, container.grain)
            => runs'[i] = runs'[j]
     /\ phase' = "done" => best_cfg'[1] = runs'[StrategyIndex(best_name')]]_vars

\* C10 witness: a result returned after a later strategy won, with items both
\* placed and unpacked.
C10_Witness ==
  /\ phase = "done"
  /\ StrategyIndex(best_name) > 1
  /\ Len(best_cfg[1].placed_products) >= 2
  /\ best_cfg[1].unpacked_products # <<>>
  /\ best_cfg[1] = runs[StrategyIndex(best_name)]

\* the number of entries of s that are x
Count(s, x) == Cardinality({i \in DOMAIN s : s[i] = x})

\* the products of the placed sequence of c, in commit order
PlacedProducts(c) == [i \in DOMAIN c.placed_products |-> c.placed_products[i].product]

\* the set of the entries of s
Range(s) == {s[i] : i \in DOMAIN s}

\* C11: when a placement round returns, every item appears as often in the
\* placed sequence and the unpacked list together as in the list given (once,
\* for distinct items, in exactly one of the two): none is lost, duplicated
\* or placed twice, and an item without a place is in the unpacked list.
C11_Partition ==
  ppc = "ret" =>
    \A x \in Range(products) \cup Range(PlacedProducts(cfg)) \cup Range(cfg.unpacked_products) :
      /\ Count(PlacedProducts(cfg), x) + Count(cfg.unpacked_products, x) = Count(products, x)
      /\ Count(products, x) = 1 =>
           (x \in Range(PlacedProducts(cfg))) # (x \in Range(cfg.unpacked_products))

\* C11 witness: a round returns with an item unpacked and with an item that
\* was passed over in one pass and committed in a later one, after an item
\* that came behind it in the list.
C11_Witness ==
  /\ ppc = "ret"
  /\ cfg.unpacked_products # <<>>
  /\ \E i, j \in DOMAIN Placed :
       /\ i < j
       /\ \E a, b \in DOMAIN products :
            LET lst == sorted(products, strat, container.grain)
            IN a < b /\ lst[a] = Placed[j].product /\ lst[b] = Placed[i].product

\* every orientation variant of product is taller than the container, by
\* more than 0.01
TooTall(product) ==
  \A j \in DOMAIN _orientation_variants(product) :
    _orientation_variants(product)[j].dims[3] > container.height + EPS

\* C12: an item whose every allowed orientation variant is taller than the
\* container (beyond 0.01) is never placed: it is in no ledger's placed
\* sequence, it is in the unpacked list of every round that has returned and
\* of the result, and every other item is still placed or reported unpacked.
C12_TooTallUnpacked ==
  \A k \in DOMAIN products :
    TooTall(products[k]) =>
      /\ products[k] \notin Range(PlacedProducts(cfg))
      /\ ppc = "ret" =>
           /\ products[k] \in Range(cfg.unpacked_products)
           /\ \A i \in DOMAIN products :
                products[i] \in Range(PlacedProducts(cfg)) \cup Range(cfg.unpacked_products)
      /\ \A i \in DOMAIN runs :
           /\ products[k] \in Range(runs[i].unpacked_products)
           /\ products[k] \notin Range(PlacedProducts(runs[i]))
      /\ phase = "done" =>
           /\ products[k] \in Range(best_cfg[1].unpacked_products)
           /\ products[k] \notin Range(PlacedProducts(best_cfg[1]))

\* C12 witness: the result is returned with an item taller than the container
\* unpacked and an item that came behind it in the winning round's list placed.
C12_Witness ==
  /\ phase = "done"
  /\ LET lst == sorted(products, strat, container.grain)
     IN \E a, b \in DOMAIN lst :
          /\ a < b
          /\ TooTall(lst[a])
          /\ lst[a] \in Range(best_cfg[1].unpacked_products)
          /\ lst[b] \in Range(PlacedProducts(best_cfg[1]))

\* optimize_packing has returned for the two cuboids of 60 x 40 x 20 in the
\* container of 100 x 80 x 170 (max_weight 300, shelf_interval 20)
TwoCuboidsDone ==
  /\ phase = "done"
  /\ container = STANDARD_ROLL_CONTAINER
  /\ products = TwoCuboids

\* C13: for the container 100 x 80 x 170 and two non-fragile cuboids
\* 60 x 40 x 20 of 10 kg, upright only, the result places both, both at
\* z = 0, their boxes not overlapping, and its unpacked list is empty.
C13_TwoOnFloor ==
  TwoCuboidsDone =>
    LET placed == best_cfg[1].placed_products
    IN /\ Len(placed) = 2
       /\ {placed[1].product, placed[2].product} = Range(TwoCuboids)
       /\ placed[1].position[3] = 0
       /\ placed[2].position[3] = 0
       /\ ~BoxesIntersect(placed[1], placed[2])
       /\ best_cfg[1].unpacked_products = <<>>

\* C13 witness: the result for the two cuboids, the second standing against
\* the first on the floor.
C13_Witness ==
  /\ TwoCuboidsDone
  /\ Len(best_cfg[1].placed_products) = 2
  /\ best_cfg[1].placed_products[2].position[3] = 0
  /\ best_cfg[1].placed_products[2].position[1]
       = get_bounds(best_cfg[1].placed_products[1])[1]

\* the volume of a placed item from its box (a cylinder's from its diameter
\* and height, with pi as 22/7), and of the container from its sides, in
\* cubes of edge grain, times 28
BoxVolume(p) ==
  LET g == container.grain
  IN IF p.product.product_type = "Cylinder"
     THEN 22 * (p.product.dimensions[1] \div g) * (p.product.dimensions[1] \div g)
             * (p.product.dimensions[3] \div g)
     ELSE 28 * (p.dimensions[1] \div g) * (p.dimensions[2] \div g) * (p.dimensions[3] \div g)

RECURSIVE SumBoxVolume(_)
SumBoxVolume(placed) ==
  IF placed = <<>> THEN 0 ELSE BoxVolume(Head(placed)) + SumBoxVolume(Tail(placed))

ContainerBoxVolume ==
  28 * (container.length \div container.grain) * (container.width \div container.grain)
     * (container.height \div container.grain)

\* C14 as stated: the utilization of the result for the two cuboids is
\* approximately 5.6 % (between 5.5 % and 5.7 %).
C14_Utilization56 ==
  TwoCuboidsDone =>
    /\ get_utilization(best_cfg[1], container) >= 550
    /\ get_utilization(best_cfg[1], container) <= 570

\* C14, amended: the utilization of a returned ledger is 100 x (sum of the
\* volumes of its placed items) / (container volume), and for the two placed
\* cuboids 60 x 40 x 20 in the container 100 x 80 x 170 it is approximately
\* 7.06 % (96000 / 1360000).
C14_Utilization ==
  /\ ppc = "ret" =>
       get_utilization(cfg, container)
         = LongDiv(SumBoxVolume(Placed), ContainerBoxVolume, 4).q
  /\ TwoCuboidsDone =>
       /\ get_utilization(best_cfg[1], container) >= 705
       /\ get_utilization(best_cfg[1], container) <= 706

\* C14 witness: the result for the two cuboids, both placed, and its
\* utilization 100 x 96 / 1360 (in litres) to two places.
C14_Witness ==
  /\ TwoCuboidsDone
  /\ Len(best_cfg[1].placed_products) = 2
  /\ get_utilization(best_cfg[1], container) = (100 * 100 * 96) \div 1360

\* a placement round over the list [fragile cuboid 50 x 30 x 20 of 8 kg, cuboid
\* 50 x 30 x 10 of 5 kg], in that order, in the container 100 x 80 x 170
RoundFragileThenFlat ==
  /\ container = STANDARD_ROLL_CONTAINER
  /\ ppc \in {"while", "for", "ret"}
  /\ sorted(products, strat, container.grain) = FragileThenFlat

\* C15: in a round over [fragile cuboid, flat cuboid] the fragile item is
\* committed first, and the flat one second, at z = 0 or at a shelf level, not
\* with its bottom on the fragile item's top: never at z > 0 on top of it.
C15_FlatBesideFragile ==
  RoundFragileThenFlat =>
    /\ Len(Placed) >= 1 => Placed[1].product = FragileThenFlat[1]
    /\ Len(Placed) >= 2 =>
         /\ Placed[2].product = FragileThenFlat[2]
         /\ Placed[2].position[3] % container.shelf_interval = 0
         /\ ~(/\ Placed[2].position[3] > 0
              /\ FootprintsIntersect(Placed[1], Placed[2]))
         /\ ~(/\ Abs(Placed[2].position[3] - get_bounds(Placed[1])[3]) <= LEVEL_TOL
              /\ FootprintsIntersect(Placed[1], Placed[2]))
    /\ ppc = "ret" => Len(Placed) = 2

\* C15 witness: the round has returned with the flat cuboid on the floor, its
\* side against the fragile one's.
C15_Witness ==
  /\ RoundFragileThenFlat
  /\ ppc = "ret"
  /\ Len(Placed) = 2
  /\ Placed[1].product.fragile
  /\ Placed[2].position = <<get_bounds(Placed[1])[1], 0, 0>>

\* the configuration has a non-positive container or item dimension, an item
\* with no allowed orientation, or a shelf interval that is non-positive or
\* above the container's height
InvalidConfiguration ==
  \/ container.length <= 0 \/ container.width <= 0 \/ container.height <= 0
  \/ container.shelf_interval <= 0
  \/ container.shelf_interval > container.height
  \/ \E k \in DOMAIN products :
       \/ \E d \in 1..3 : products[k].dimensions[d] <= 0
       \/ products[k].allowed_orientations = <<>>

\* C16: an invalid configuration is refused before any strategy run or
\* placement attempt starts: no round is entered on it, no ledger is recorded
\* or returned, and no item of it is reported as unpacked.
C16_InvalidRejected ==
  InvalidConfiguration =>
    /\ ppc = "call" /\ phase = "try" /\ strat = 1
    /\ runs = <<>>
    /\ best_cfg = None
    /\ cfg.unpacked_products = <<>>

\* C17: a refused commit attempt (weight, bounds or overlap) leaves the
\* ledger as it was: placed sequence, total weight and unpacked list; an
\* accepted one appends the candidate at the end of the placed sequence, adds
\* its weight to the total and changes nothing else.
C17_CommitFrame ==
  [][attempts' = attempts + 1 =>
       IF ret' = Some(FALSE)
       THEN cfg' = cfg
       ELSE \E p \in LedgerCandidates :
              cfg' = [cfg EXCEPT !.placed_products = Append(@, p),
                                 !.total_weight = @ + p.product.weight]]_vars

\* C17 witness: two accepted attempts, then a refused one on the loaded ledger.
C17_Witness ==
  /\ phase = "ledger"
  /\ ret = Some(FALSE)
  /\ Len(Placed) = 2
  /\ attempts = 3
  /\ cfg.total_weight = Placed[1].product.weight + Placed[2].product.weight

\* C18: add_placement refuses every candidate whose box is not inside
\* [0, length] x [0, width] x [0, height] (0.01 allowed), a negative lower
\* corner included: whoever calls it, every box of the ledger lies in the
\* container.
C18_CommitInBounds ==
  phase = "ledger" => \A i \in DOMAIN Placed : InContainer(Placed[i])

\* s is a prefix of t
IsPrefix(s, t) == Len(s) <= Len(t) /\ SubSeq(t, 1, Len(s)) = s

\* C19: throughout a round the placed sequence only grows at its end: at
\* every step the sequence before is a prefix of the sequence after, so no
\* placed item's product, orientation, position or dimensions is changed,
\* moved or removed, and the final sequence is the commit order; the ledgers
\* already returned stay as they were.  (At the call of a round the ledger
\* is a new one.)
C19_AppendOnly ==
  [][/\ ppc # "call" => IsPrefix(cfg.placed_products, cfg'.placed_products)
     /\ IsPrefix(runs, runs')]_vars

\* C19 witness: a round returns with three items committed, after other
\* rounds have returned their ledgers.
C19_Witness ==
  /\ ppc = "ret"
  /\ runs # <<>>
  /\ Len(Placed) = 3
  /\ Placed[1] # Placed[2] /\ Placed[2] # Placed[3]

\* the product _pack is about to hand to _find_best
SearchPending == ppc = "for" /\ idx <= Len(remaining)

\* the tops z + height of the combinations of a level of _z_levels, an
\* orientation variant and an anchor of _candidates that pass _valid, for
\* product on the ledger cfg; with shelfRule, a fragile product's level must
\* also be the floor or within 0.1 of a shelf multiple
PassingTops(product, shelfRule) ==
  LET levels == _z_levels(cfg, container)
      variants == _orientation_variants(product)
      Passes(k, j) ==
        /\ (shelfRule /\ product.fragile) => NearShelfLevel(levels[k])
        /\ LET cands == _candidates(variants[j].dims, levels[k], cfg, container)
           IN \E i \in DOMAIN cands :
                _valid(cands[i], variants[j].dims, cfg, product, container)
  IN {levels[kj[1]] + variants[kj[2]].dims[3] :
        kj \in {q \in (DOMAIN levels) \X (DOMAIN variants) : Passes(q[1], q[2])}}

\* _find_best returns none exactly when tops is empty, and otherwise a
\* placement whose top is the least of tops
ReturnsLowestOf(product, tops) ==
  LET fb == _find_best(product, cfg, container)
  IN IF fb = None THEN tops = {}
     ELSE /\ get_bounds(fb[1])[3] \in tops
          /\ \A t \in tops : get_bounds(fb[1])[3] <= t

\* C20 as stated: the top of the placement _find_best returns is the least
\* over all combinations of level, variant and anchor that pass the validity
\* check _valid, and it returns none exactly when no combination passes.
C20_LowestOfAllValid ==
  SearchPending => ReturnsLowestOf(remaining[idx], PassingTops(remaining[idx], FALSE))

\* C20, amended: the top of the placement _find_best returns is the least
\* over all combinations of level, variant and anchor that pass _valid and,
\* for a fragile item, have their level on the floor or within 0.1 of a shelf
\* multiple; the early stop and the pruning lose none of them; it returns
\* none exactly when there is no such combination.
C20_LowestTop ==
  SearchPending => ReturnsLowestOf(remaining[idx], PassingTops(remaining[idx], TRUE))

\* C20 witness: the search for a fragile item returns a placement while a
\* combination off the shelf levels passes _valid with a lower top, and
\* combinations with a higher top pass as well.
C20_Witness ==
  /\ SearchPending
  /\ remaining[idx].fragile
  /\ LET fb == _find_best(remaining[idx], cfg, container)
     IN /\ fb # None
        /\ \E t \in PassingTops(remaining[idx], FALSE) : t < get_bounds(fb[1])[3]
        /\ \E t \in PassingTops(remaining[idx], TRUE) : t > get_bounds(fb[1])[3]

\* the number of faces of the box at pos with dims that lie within 0.1 of a
\* container wall
WallFaces(pos, dims) ==
  Cardinality({f \in 1..4 :
    CASE f = 1 -> pos[1] < LEVEL_TOL
      [] f = 2 -> pos[2] < LEVEL_TOL
      [] f = 3 -> Abs(pos[1] + dims[1] - container.length) < LEVEL_TOL
      [] f = 4 -> Abs(pos[2] + dims[2] - container.width) < LEVEL_TOL})

\* the number of pairs of a placed item and an axis a (1: x, 2: y) such that
\* the item overlaps the box in height and along the other axis, and a face
\* of the box across a lies within 0.1 of the facing face of the item
SideContacts(pos, dims) ==
  Cardinality({na \in (DOMAIN Placed) \X {1, 2} :
    LET p == Placed[na[1]]
        a == na[2]
        b == 3 - na[2]
    IN /\ Max(pos[3], p.position[3]) < Min(pos[3] + dims[3], p.position[3] + p.dimensions[3])
       /\ \/ Abs(pos[a] + dims[a] - p.position[a]) < LEVEL_TOL
          \/ Abs(p.position[a] + p.dimensions[a] - pos[a]) < LEVEL_TOL
       /\ Max(pos[b], p.position[b]) < Min(pos[b] + dims[b], p.position[b] + p.dimensions[b])})

\* score = 2*y + x - 60*walls - 40*contacts, in hundredths
TieScore(pos, dims) ==
  2 * pos[2] + pos[1] - 60 * CM * WallFaces(pos, dims) - 40 * CM * SideContacts(pos, dims)

\* the valid candidates of the search for product on the ledger cfg: the
\* combinations of a level of _z_levels (k), an orientation variant (j) and
\* an anchor of _candidates (i) that pass _valid, the level of a fragile
\* product being the floor or within 0.1 of a shelf multiple; each with its
\* top, its score and its placement
ValidCombos(product) ==
  LET levels == _z_levels(cfg, container)
      variants == _orientation_variants(product)
      At(k, j) ==
        LET cands == _candidates(variants[j].dims, levels[k], cfg, container)
        IN {[k |-> k, j |-> j, i |-> i,
             top |-> levels[k] + variants[j].dims[3],
             sc |-> TieScore(cands[i], variants[j].dims),
             pl |-> PlacedProduct(product, variants[j].orient, cands[i], variants[j].dims)] :
              i \in {n \in DOMAIN cands :
                       _valid(cands[n], variants[j].dims, cfg, product, container)}}
  IN UNION {At(q[1], q[2]) :
              q \in {r \in (DOMAIN levels) \X (DOMAIN variants) :
                       product.fragile => NearShelfLevel(levels[r[1]])}}

\* a comes before b: lower top, then lower score, then met earlier (lower
\* level, then variant order, then anchor order)
Before(a, b) ==
  \/ a.top < b.top
  \/ a.top = b.top /\ a.sc < b.sc
  \/ a.top = b.top /\ a.sc = b.sc /\ a.k < b.k
  \/ a.top = b.top /\ a.sc = b.sc /\ a.k = b.k /\ a.j < b.j
  \/ a.top = b.top /\ a.sc = b.sc /\ a.k = b.k /\ a.j = b.j /\ a.i < b.i

\* _find_best returns the placement of the combination of combos that comes
\* before every other one (none when combos is empty)
ReturnsFirstOf(product, combos) ==
  LET fb == _find_best(product, cfg, container)
  IN IF fb = None THEN combos = {}
     ELSE \E a \in combos :
            /\ a.pl = fb[1]
            /\ \A b \in combos : b # a => Before(a, b)

C22_FixedPoint ==
  ppc = "ret" =>
    \A n \in DOMAIN cfg.unpacked_products :
      LET fb == _find_best(cfg.unpacked_products[n], cfg, container)
      IN /\ \/ fb = None
            \/ cfg.total_weight + cfg.unpacked_products[n].weight > container.max_weight
         /\ IF fb = None THEN TRUE ELSE ~add_accepts(cfg, fb[1], container)

\* C22 witness: a round returns with an item placed, an unpacked item that
\* has no placement on the final ledger and an unpacked item that has one and
\* is too heavy for it.
C22_Witness ==
  /\ ppc = "ret"
  /\ Len(Placed) >= 1
  /\ \E n \in DOMAIN cfg.unpacked_products :
       _find_best(cfg.unpacked_products[n], cfg, container) = None
  /\ \E n \in DOMAIN cfg.unpacked_products :
       /\ _find_best(cfg.unpacked_products[n], cfg, container) # None
       /\ cfg.total_weight + cfg.unpacked_products[n].weight > container.max_weight

\* a round is in its loop: between the call of _pack and its return
InRound == ppc \in {"while", "for"}

\* C23: a placement round over n items terminates: every pass except the
\* last commits at least one item and takes it out of the remaining list, at
\* most n + 1 passes are begun, the loop is left as soon as a pass has
\* committed nothing or no item remains, and every round that is called
\* returns.
C23_Terminates ==
  /\ [](InRound =>
          /\ passes <= Len(products) + 1
          /\ Len(Placed) >= passes - 1
          /\ Len(Placed) + (IF ppc = "for" THEN Len(remaining) - idx + 1 + Len(left)
                                           ELSE Len(remaining)) = Len(products)
          /\ ((ppc = "while" /\ passes >= 1 /\ made_progress) => Len(Placed) >= passes))
  /\ [][/\ ((ppc = "while" /\ ~(made_progress /\ remaining # <<>>)) => ppc' = "ret")
       /\ ((ppc = "while" /\ ppc' = "for") =>
            (passes = 0 \/ Len(remaining) < Len(products) - (passes - 1)))
       /\ ((ppc = "for" /\ ppc' = "while") =>
            (Len(remaining') < Len(remaining) <=> made_progress))]_vars
  /\ (ppc = "call" ~> ppc = "ret")
  /\ <>(phase = "done")

\* C23 witness: a round over four items returns after three passes, two that
\* committed and a last one that did not, an item still unpacked.
C23_Witness ==
  /\ ppc = "ret"
  /\ passes = 3
  /\ Len(products) = 4
  /\ Len(Placed) = 3
  /\ Len(cfg.unpacked_products) = 1

\* no placed item's vertical span extends more than 0.5 below z and more than
\* 0.5 above z
NotStraddled(z) ==
  \A n \in DOMAIN Placed :
    ~(/\ Placed[n].position[3] < z - SHELF_TOL
      /\ get_bounds(Placed[n])[3] > z + SHELF_TOL)

\* C24: a candidate whose bottom is a shelf multiple k * shelf_interval
\* (k >= 1) and which has no stacking coverage is treated as supported exactly
\* when no placed item's vertical span extends more than 0.5 below and more
\* than 0.5 above that level; an item whose top is at or below the level does
\* not make the shelf unclear.
C24_ClearShelfSupports ==
  SearchPending =>
    \A k \in 1..(container.height \div container.shelf_interval) :
      LET z == k * container.shelf_interval
          variants == _orientation_variants(remaining[idx])
      IN \A j \in DOMAIN variants :
           LET cands == _candidates(variants[j].dims, z, cfg, container)
           IN \A i \in DOMAIN cands :
                support_area(cands[i], variants[j].dims, Placed) = 0 =>
                  (_supported(cands[i], variants[j].dims, cfg, remaining[idx], container)
                     <=> NotStraddled(z))

\* the i-th placed item rests on the floor, or its bottom is a shelf multiple
\* (k >= 1) that none of the items placed before it extends through (more
\* than 0.5 below and more than 0.5 above)
RestsOnFloorOrClearShelf(i) ==
  LET z == Placed[i].position[3]
  IN \/ Abs(z) < EPS
     \/ /\ \E k \in 1..(container.height \div container.shelf_interval) :
             Abs(z - k * container.shelf_interval) < EPS
        /\ \A n \in 1..(i - 1) :
             ~(/\ Placed[n].position[3] < z - SHELF_TOL
               /\ get_bounds(Placed[n])[3] > z + SHELF_TOL)

\* C25: a fragile item is never committed in a stacking position: every
\* fragile placed item rests on the floor or on a clear shelf, and none is
\* accepted because half of its footprint lies on the tops of other items,
\* also when its bottom is a shelf multiple.
C25_FragileNeverStacked ==
  \A i \in DOMAIN Placed :
    Placed[i].product.fragile => RestsOnFloorOrClearShelf(i)

\* the ledgers returned so far: by the round that has just returned, by the
\* strategy runs, and by optimize_packing
ReturnedLedgers ==
  (IF ppc = "ret" THEN {cfg} ELSE {}) \cup Range(runs)
    \cup (IF phase = "done" THEN Range(best_cfg) ELSE {})

C27_FoundPassesCommit ==
  SearchPending =>
    LET fb == _find_best(remaining[idx], cfg, container)
    IN fb # None =>
         /\ get_bounds(fb[1])[1] <= container.length + EPS
         /\ get_bounds(fb[1])[2] <= container.width + EPS
         /\ get_bounds(fb[1])[3] <= container.height + EPS
         /\ \A n \in DOMAIN Placed : ~BoxesIntersect(fb[1], Placed[n])
         /\ add_accepts(cfg, fb[1], container)
              <=> cfg.total_weight + remaining[idx].weight <= container.max_weight

\* C27 witness: on a loaded ledger the search finds a placement, against the
\* side of a placed item, that the commit refuses for its weight.
C27_Witness ==
  /\ SearchPending
  /\ LET fb == _find_best(remaining[idx], cfg, container)
     IN /\ fb # None
        /\ ~add_accepts(cfg, fb[1], container)
        /\ \E n \in DOMAIN Placed : fb[1].position[1] = get_bounds(Placed[n])[1]

\* the anchors _candidates returns for the footprint of dims at height z on
\* the ledger cfg are as C28 says
AnchorsWellFormed(dims, z) ==
  LET cands == _candidates(dims, z, cfg, container)
      l == dims[1]
      w == dims[2]
      fits == l <= container.length + EPS /\ w <= container.width + EPS
  IN /\ \A i \in DOMAIN cands :
          /\ 0 <= cands[i][1] /\ 0 <= cands[i][2]
          /\ cands[i][1] + l <= container.length + EPS
          /\ cands[i][2] + w <= container.width + EPS
          /\ cands[i][3] = z
     /\ \A i, n \in DOMAIN cands :
          i < n => <<round1(cands[i][1]), round1(cands[i][2])>>
                     # <<round1(cands[n][1]), round1(cands[n][2])>>
     /\ \A i \in 1..(Len(cands) - 1) :
          \/ cands[i][2] < cands[i + 1][2]
          \/ cands[i][2] = cands[i + 1][2] /\ cands[i][1] <= cands[i + 1][1]
     /\ ~fits => cands = <<>>
     /\ fits => \E i \in DOMAIN cands : cands[i] = <<0, 0, z>>

\* C28: for a footprint (l, w), a height z and a ledger, the anchors of
\* _candidates all satisfy 0 <= x, 0 <= y, x + l <= length + 0.01 and
\* y + w <= width + 0.01 and carry z, no two have the same (x, y) rounded to
\* 0.1, they are ordered by (y, x) ascending, there is none when the
\* footprint does not fit the floor, and the corner (0, 0) is among them
\* whenever it fits.
C28_Anchors ==
  SearchPending =>
    LET levels == _z_levels(cfg, container)
        variants == _orientation_variants(remaining[idx])
    IN \A k \in DOMAIN levels : \A j \in DOMAIN variants :
         AnchorsWellFormed(variants[j].dims, levels[k])

\* C28 witness: on a loaded ledger a variant of the product searched for
\* does not fit the floor, and another has anchors in more than one row, one
\* of them off the centimetre grid.
C28_Witness ==
  /\ SearchPending
  /\ Placed # <<>>
  /\ LET levels == _z_levels(cfg, container)
         variants == _orientation_variants(remaining[idx])
     IN /\ \E j \in DOMAIN variants :
             \/ variants[j].dims[1] > container.length + EPS
             \/ variants[j].dims[2] > container.width + EPS
        /\ \E k \in DOMAIN levels : \E j \in DOMAIN variants :
             LET cands == _candidates(variants[j].dims, levels[k], cfg, container)
             IN /\ \E i \in DOMAIN cands : cands[i][1] % CM # 0 \/ cands[i][2] % CM # 0
                /\ \E i, n \in DOMAIN cands : cands[i][2] < cands[n][2]

\* the entries of s that are in T, in the order of s
Only(s, T) == SelectSeq(s, LAMBDA x : x \in T)

\* the products the current pass has attempted so far, in the order of the list
Attempted == SubSeq(remaining, 1, idx - 1)

\* the number of products the current pass has committed so far
CommittedInPass == (idx - 1) - Len(left)

\* the products the current pass has committed so far, in commit order
PassCommits ==
  [i \in 1..CommittedInPass |->
     Placed[Len(Placed) - CommittedInPass + i].product]

\* C29: within one pass the products are attempted in the order of the list:
\* every step of the for loop handles the product at idx, searches on the
\* ledger as it stands (the commits of the pass included), appends either the
\* placement found to the placed sequence or the product to left, and goes on
\* to the next product either way; so the products committed in a pass are in
\* the placed sequence in list order, each on the placement the search gives
\* on the ledger of all commits before it, and the products left are in list
\* order too.
C29_PassOrder ==
  /\ [](ppc = "for" =>
          /\ CommittedInPass \in 0..Len(Placed)
          /\ left = Only(Attempted, Range(left))
          /\ PassCommits = Only(Attempted, Range(Attempted) \ Range(left))
          /\ \A i \in (Len(Placed) - CommittedInPass + 1)..Len(Placed) :
               Some(Placed[i]) = _find_best(Placed[i].product, LedgerBefore(i), container))
  /\ [][(ppc = "for" /\ idx <= Len(remaining)) =>
          /\ ppc' = "for"
          /\ idx' = idx + 1
          /\ remaining' = remaining
          /\ LET pl == _find_best(remaining[idx], cfg, container)
             IN IF pl # None /\ cfg'.placed_products # Placed
                THEN /\ cfg'.placed_products = Append(Placed, pl[1])
                     /\ left' = left
                ELSE /\ cfg'.placed_products = Placed
                     /\ left' = Append(left, remaining[idx])]_vars

\* C29 witness: in one pass a product is left, two products behind it in the
\* list are committed, and the second of them goes where the search would not
\* have put it on the ledger the pass began with.
C29_Witness ==
  /\ ppc = "for"
  /\ CommittedInPass >= 2
  /\ \E i, j, k \in 1..(idx - 1) :
       /\ i < j /\ j < k
       /\ remaining[i] \in Range(left)
       /\ remaining[j] \notin Range(left)
       /\ remaining[k] \notin Range(left)
  /\ Some(Placed[Len(Placed)])
       # _find_best(Placed[Len(Placed)].product,
                    LedgerBefore(Len(Placed) - CommittedInPass + 1), container)

\* the ledger a has more placed items than b, or as many and more volume used
Outscores(a, b) ==
  \/ Len(a.placed_products) > Len(b.placed_products)
  \/ /\ Len(a.placed_products) = Len(b.placed_products)
     /\ used_volume(a, container) > used_volume(b, container)

\* run i is the first of the runs made so far that no run outscores
FirstBest(i) ==
  /\ \A j \in 1..(i - 1) : Outscores(runs[i], runs[j])
  /\ \A j \in (i + 1)..Len(runs) : ~Outscores(runs[j], runs[i])

\* C30: after every run the best so far is the first, in the fixed strategy
\* order, of the runs no run outscores (more placed items, or as many and a
\* greater utilization): a run that only equals the best score replaces
\* nothing, and the best changes only in a step whose run outscores the one it
\* replaces; what optimize_packing returns is that run's ledger, and for an
\* empty item list it is the empty ledger of volume_desc.
C30_FirstOfTheBest ==
  /\ [](/\ StrategyNames
             = <<"volume_desc", "footprint_desc", "height_desc", "weight_desc",
                 "volume_asc", "fragile_first", "heavy_bottom", "tall_then_big",
                 "compact_first">>
        /\ (runs = <<>>) => (best_cfg = None /\ best_name = "")
        /\ (runs # <<>>) =>
             \A i \in DOMAIN runs :
               FirstBest(i) <=> (best_name = StrategyNames[i] /\ best_cfg = Some(runs[i]))
        /\ (phase = "done" /\ products = <<>>) =>
             /\ best_name = "volume_desc"
             /\ best_cfg = Some(PackingConfiguration))
  /\ [][(best_name' # best_name /\ best_cfg # None) =>
          /\ Outscores(cfg, best_cfg[1])
          /\ best_cfg' = Some(cfg)
          /\ best_name' = StrategyNames[strat]]_vars

\* C30 witness: optimize_packing has returned; a strategy after the first won,
\* and a later strategy's run, with another ledger, has the same number of
\* placed items and the same utilization as the winner.
C30_Witness ==
  /\ phase = "done"
  /\ \E i, j \in DOMAIN runs :
       /\ 1 < i /\ i < j
       /\ best_name = StrategyNames[i]
       /\ runs[j] # runs[i]
       /\ ~Outscores(runs[i], runs[j])
       /\ ~Outscores(runs[j], runs[i])

====
